---- MODULE Spec2Model ----
(***************************************************************************)
(* A model of app.py: the timestamp normaliser parse_ts, the data_points   *)
(* table, and the two request handlers ingest (POST /api/ingest) and       *)
(* api_data (GET /api/data).                                               *)
(*                                                                         *)
(* Instants are integers (seconds since the epoch).  A datetime is a       *)
(* record [wall, aware, off]: the wall-clock reading, whether it carries a *)
(* tzinfo, and that tzinfo's offset from UTC; the instant it denotes is    *)
(* wall - off.  JSON values are tagged records [t, v]; JSON text is a      *)
(* sequence of one-character strings.                                      *)
(***************************************************************************)
EXTENDS Integers, Sequences, FiniteSets, TLC

\* The field names of the model's records, in the one order in which every
\* record below lists its fields.
FieldOrder ==
    [ok |-> 1, on |-> 2, wall |-> 3, aware |-> 4, k |-> 5, t |-> 6, b |-> 7,
     n |-> 8, f |-> 9, s |-> 10, a |-> 11, m |-> 12, v |-> 13, off |-> 14,
     dt |-> 15, cls |-> 16, val |-> 17, chars |-> 18, pos |-> 19, id |-> 20,
     ts |-> 21, value |-> 22, meta |-> 23, null |-> 24, text |-> 25,
     keys |-> 26, hdr |-> 27, req |-> 28, at |-> 29, op |-> 30,
     status |-> 31, x |-> 32, since |-> 33, until |-> 34, at1 |-> 35,
     at2 |-> 36, body |-> 37]

VARIABLES
    store,      \* the data_points table: a sequence of DataPoint rows
    clock,      \* the wall clock datetime.now(timezone.utc) reads
    inflight,   \* ingest requests past validation, before db.commit()
    resp,       \* the last response sent, with the request it answers
    sent,       \* history: sent[i] is the request that made row store[i]
    API_KEY,    \* os.environ.get("API_KEY"), read at start-up
    backend,    \* the engine DATABASE_URL selects
    localOff    \* UTC offset of the server's local time zone

vars == <<store, clock, inflight, resp, sent, API_KEY, backend, localOff>>

\* ---------------------------------------------------------------- bounds
MaxPoints   == 2    \* rows the table may hold
MaxSingle   == 1    \* the same, where each ingest is looked at alone
MaxClock    == 2    \* the clock runs 1 .. MaxClock
MaxEpoch    == 3    \* largest instant a datetime represents (year 9999)
MaxInflight == 2    \* ingests between validation and commit
MaxOff      == 1    \* largest UTC offset of an input or of the server

\* ------------------------------------------------------------- datetimes
Aware(w, o) == [wall |-> w, aware |-> TRUE, off |-> o]
Naive(w)    == [wall |-> w, aware |-> FALSE, off |-> 0]

\* A call that raised: every Python call below returns [ok, dt].
Raised   == [ok |-> FALSE, dt |-> Naive(0)]
Ret(dt)  == [ok |-> TRUE, dt |-> dt]

\* datetime.now(timezone.utc)
now_utc(clk) == Aware(clk, 0)

\* datetime.fromtimestamp(x, tz=timezone.utc): OverflowError / ValueError
\* outside the years 1..9999.
fromtimestamp(x) == IF x > MaxEpoch THEN Raised ELSE Ret(Aware(x, 0))

\* dt.replace(tzinfo=timezone.utc): the reading is kept, the zone is set.
replace_utc(dt) == Aware(dt.wall, 0)

\* dt.astimezone(timezone.utc): an aware datetime is converted; a naive one
\* is presumed to be in the system's local time.
astimezone_utc(dt, loc) ==
    IF dt.aware THEN Aware(dt.wall - dt.off, 0) ELSE Aware(dt.wall - loc, 0)

\* ------------------------------------------------------------ raw inputs
\* A raw JSON value or query-string argument, as far as parse_ts and float
\* tell them apart: [k, n, f, off].
\*   none      None (key absent, or JSON null)
\*   num       a JSON number n            bool   true / false (n = 1 / 0)
\*   empty     ""                         digits a string of digits, "n"
\*   fmt       a string in ISO_FORMATS[f] reading wall clock n
\*   iso       an ISO-8601 string outside ISO_FORMATS reading n; off is its
\*             explicit offset, f = 0 when it carries none, 1 when it does
\*   inf, nan  the strings "inf", "nan"   numinf, numnan the JSON literals
\*   garbage   any other string           elist  []      other  [..] / {..}
Raw(k, n, f, o) == [k |-> k, n |-> n, f |-> f, off |-> o]
RNone     == Raw("none", 0, 0, 0)
REmpty    == Raw("empty", 0, 0, 0)
RGarbage  == Raw("garbage", 0, 0, 0)
RNum(n)   == Raw("num", n, 0, 0)
RBool(n)  == Raw("bool", n, 0, 0)
RDigits(n) == Raw("digits", n, 0, 0)
RFmt(f, n) == Raw("fmt", n, f, 0)
RIsoNaive(n) == Raw("iso", n, 0, 0)
RIsoOff(n, o) == Raw("iso", n, 1, o)

\* Python truthiness of a raw value: `not value` is true of None, 0, False,
\* "", [] and {}.
Falsy(v) ==
    \/ v.k \in {"none", "empty", "elist"}
    \/ v.k \in {"num", "bool"} /\ v.n = 0

\* isinstance(value, (int, float)): bool is a subclass of int.
IsNumber(v) == v.k \in {"num", "bool", "numinf", "numnan"}

\* isinstance(value, str) and value.replace('.', '', 1).isdigit()
IsDigitString(v) == v.k = "digits"

\* datetime.fromtimestamp(float(value), tz=timezone.utc)
FromTimestampOf(v) ==
    IF v.k \in {"numinf", "numnan"} THEN Raised ELSE fromtimestamp(v.n)

ISO_FORMATS == <<"%Y-%m-%dT%H:%M:%S.%fZ", "%Y-%m-%dT%H:%M:%SZ",
                 "%Y-%m-%d %H:%M:%S", "%Y-%m-%d">>

\* datetime.strptime(str(value), ISO_FORMATS[i]): a naive datetime, since
\* no format has %z; ValueError when the string is not in that format.
strptime(v, i) ==
    IF v.k = "fmt" /\ v.f = i THEN Ret(Naive(v.n)) ELSE Raised

\* datetime.fromisoformat(str(value)), reached only by strings outside
\* ISO_FORMATS: aware when the string carries an offset, naive otherwise.
fromisoformat(v) ==
    IF v.k = "iso"
    THEN Ret(IF v.f = 1 THEN Aware(v.n, v.off) ELSE Naive(v.n))
    ELSE Raised

\* The body shared by both parse branches (lines 49-51 and 57-59):
\*   if dt.tzinfo is None: dt = dt.replace(tzinfo=timezone.utc)
\*   return dt.astimezone(timezone.utc)
ToUtc_keepzone(dt, loc) == IF dt.aware THEN dt ELSE replace_utc(dt)
ToUtc(dt, loc) ==
    astimezone_utc(IF dt.aware THEN dt ELSE replace_utc(dt), loc)

\* for fmt in ISO_FORMATS: try ... except: continue
RECURSIVE TryFormats(_, _, _)
TryFormats(v, i, loc) ==
    IF i > Len(ISO_FORMATS) THEN Raised
    ELSE IF strptime(v, i).ok THEN Ret(ToUtc(strptime(v, i).dt, loc))
    ELSE TryFormats(v, i + 1, loc)

\* The numeric branch (lines 39-43): the result, or Raised when the test
\* fails or the conversion raises and the except clause passes.
NumericBranch(v) ==
    IF IsNumber(v) \/ IsDigitString(v) THEN FromTimestampOf(v) ELSE Raised

\* def parse_ts(value): [ok, dt]; ok = FALSE would be an exception leaving
\* the function.
parse_ts_strict(value, clk, loc) ==
    IF Falsy(value) THEN Ret(now_utc(clk))
    ELSE IF NumericBranch(value).ok THEN NumericBranch(value)
    ELSE IF TryFormats(value, 1, loc).ok THEN TryFormats(value, 1, loc)
    ELSE IF fromisoformat(value).ok
         THEN Ret(ToUtc(fromisoformat(value).dt, loc))
    ELSE Raised

parse_ts(value, clk, loc) ==
    IF Falsy(value) THEN Ret(now_utc(clk))
    ELSE IF NumericBranch(value).ok THEN NumericBranch(value)
    ELSE IF TryFormats(value, 1, loc).ok THEN TryFormats(value, 1, loc)
    ELSE IF fromisoformat(value).ok
         THEN Ret(ToUtc(fromisoformat(value).dt, loc))
    ELSE Ret(now_utc(clk))

\* Whether parse_ts(value) returns datetime.now(timezone.utc): line 38, or
\* line 61 after every rule has failed.
ReadsClock(value, loc) ==
    \/ Falsy(value)
    \/ /\ ~NumericBranch(value).ok
       /\ ~TryFormats(value, 1, loc).ok
       /\ ~fromisoformat(value).ok

\* ---------------------------------------------------------------- float
\* float(payload["value"]): [ok, cls, n].  TypeError for None and
\* containers, ValueError for a string that is no number; "inf", "nan"
\* and the JSON literals Infinity / NaN convert.
Float(cls, n) == [n |-> n, cls |-> cls]
FloatVal(cls, n) == [ok |-> TRUE, val |-> Float(cls, n)]
FloatRaised == [ok |-> FALSE, val |-> Float("fin", 0)]

float_lenient(v) ==
    CASE v.k \in {"num", "bool", "digits"} -> FloatVal("fin", v.n)
      [] v.k \in {"inf", "numinf"}         -> FloatVal("inf", 0)
      [] v.k \in {"nan", "numnan"}         -> FloatVal("nan", 0)
      [] v.k \in {"garbage", "empty"}      -> FloatVal("fin", 0)
      [] OTHER                              -> FloatRaised

float(v) ==
    CASE v.k \in {"num", "bool", "digits"} -> FloatVal("fin", v.n)
      [] v.k \in {"inf", "numinf"}         -> FloatVal("inf", 0)
      [] v.k \in {"nan", "numnan"}         -> FloatVal("nan", 0)
      [] OTHER                              -> FloatRaised

\* ----------------------------------------------------------------- JSON
\* A JSON value [t, b, n, s, a, m]: its type, and the boolean, the number,
\* the characters, the items or the members (records [k, v]) it holds.
J(t, b, n, s, a, m) == [t |-> t, b |-> b, n |-> n, s |-> s, a |-> a, m |-> m]
JNull    == J("null", FALSE, 0, <<>>, <<>>, <<>>)
JBool(b) == J("bool", b, 0, <<>>, <<>>, <<>>)
JNum(n)  == J("num", FALSE, n, <<>>, <<>>, <<>>)
JStr(s)  == J("str", FALSE, 0, s, <<>>, <<>>)
JArr(a)  == J("arr", FALSE, 0, <<>>, a, <<>>)
JObj(m)  == J("obj", FALSE, 0, <<>>, <<>>, m)
Member(k, v) == [k |-> k, v |-> v]

Digits == <<"0", "1", "2", "3", "4", "5", "6", "7", "8", "9">>
Quote  == "\""

\* `meta is not None`
IsNone(j) == j.t = "null"
\* `not meta`: None, False, 0, "", [] and {} are falsy.
JFalsy(j) ==
    \/ j.t = "null"
    \/ j.t = "bool" /\ ~j.b
    \/ j.t = "num" /\ j.n = 0
    \/ j.t = "str" /\ j.s = <<>>
    \/ j.t = "arr" /\ j.a = <<>>
    \/ j.t = "obj" /\ j.m = <<>>

\* json.dumps(meta, ensure_ascii=False), default separators ", " and ": ".
RECURSIVE dumps(_)
RECURSIVE dumpsItems(_, _)
RECURSIVE dumpsMembers(_, _)
dumpsItems(a, i) ==
    IF i > Len(a) THEN <<>>
    ELSE (IF i > 1 THEN <<",", " ">> ELSE <<>>) \o dumps(a[i])
         \o dumpsItems(a, i + 1)
dumpsMembers(m, i) ==
    IF i > Len(m) THEN <<>>
    ELSE (IF i > 1 THEN <<",", " ">> ELSE <<>>)
         \o <<Quote>> \o m[i].k \o <<Quote, ":", " ">> \o dumps(m[i].v)
         \o dumpsMembers(m, i + 1)
dumps(j) ==
    CASE j.t = "null" -> <<"n", "u", "l", "l">>
      [] j.t = "bool" -> IF j.b THEN <<"t", "r", "u", "e">>
                                ELSE <<"f", "a", "l", "s", "e">>
      [] j.t = "num"  -> <<Digits[j.n + 1]>>
      [] j.t = "str"  -> <<Quote>> \o j.s \o <<Quote>>
      [] j.t = "arr"  -> <<"[">> \o dumpsItems(j.a, 1) \o <<"]">>
      [] j.t = "obj"  -> <<"{">> \o dumpsMembers(j.m, 1) \o <<"}">>

\* json.loads(text): a recursive-descent parse, [ok, val, pos] with pos the
\* index after what was read; ok = FALSE is JSONDecodeError.
PFail == [ok |-> FALSE, val |-> JNull, pos |-> 0]
POk(val, pos) == [ok |-> TRUE, val |-> val, pos |-> pos]
CFail == [ok |-> FALSE, chars |-> <<>>, pos |-> 0]
COk(chars, pos) == [ok |-> TRUE, chars |-> chars, pos |-> pos]

At(s, i) == IF i <= Len(s) THEN s[i] ELSE "EOF"
HasLit(s, i, lit) ==
    /\ i + Len(lit) - 1 <= Len(s)
    /\ \A k \in 1..Len(lit) : s[i + k - 1] = lit[k]
IsDigit(c) == \E d \in 1..Len(Digits) : Digits[d] = c
DigitVal(c) == (CHOOSE d \in 1..Len(Digits) : Digits[d] = c) - 1

RECURSIVE SkipWs(_, _)
SkipWs(s, i) == IF At(s, i) = " " THEN SkipWs(s, i + 1) ELSE i

\* the characters of a string up to its closing quote; i is after the
\* opening quote
RECURSIVE ParseChars(_, _, _)
ParseChars(s, i, acc) ==
    IF i > Len(s) THEN CFail
    ELSE IF s[i] = Quote THEN COk(acc, i + 1)
    ELSE ParseChars(s, i + 1, Append(acc, s[i]))

RECURSIVE ParseValue(_, _)
RECURSIVE ParseItems(_, _, _)
RECURSIVE ParseMembers(_, _, _)
\* after "[" or ",": a value, then "," or "]"
ParseItems(s, i, acc) ==
    LET r == ParseValue(s, SkipWs(s, i))
        j == SkipWs(s, r.pos)
    IN  IF ~r.ok THEN PFail
        ELSE IF At(s, j) = "," THEN ParseItems(s, j + 1, Append(acc, r.val))
        ELSE IF At(s, j) = "]" THEN POk(JArr(Append(acc, r.val)), j + 1)
        ELSE PFail
\* after "{" or ",": "key" : value, then "," or "}"
ParseMembers(s, i, acc) ==
    LET q == SkipWs(s, i)
        k == IF At(s, q) = Quote THEN ParseChars(s, q + 1, <<>>) ELSE CFail
        c == SkipWs(s, k.pos)
        r == IF k.ok /\ At(s, c) = ":" THEN ParseValue(s, SkipWs(s, c + 1))
             ELSE PFail
        j == SkipWs(s, r.pos)
    IN  IF ~r.ok THEN PFail
        ELSE IF At(s, j) = ","
             THEN ParseMembers(s, j + 1, Append(acc, Member(k.chars, r.val)))
        ELSE IF At(s, j) = "}"
             THEN POk(JObj(Append(acc, Member(k.chars, r.val))), j + 1)
        ELSE PFail
ParseValue(s, i) ==
    CASE HasLit(s, i, <<"n", "u", "l", "l">>) -> POk(JNull, i + 4)
      [] HasLit(s, i, <<"t", "r", "u", "e">>) -> POk(JBool(TRUE), i + 4)
      [] HasLit(s, i, <<"f", "a", "l", "s", "e">>) -> POk(JBool(FALSE), i + 5)
      [] IsDigit(At(s, i)) -> POk(JNum(DigitVal(s[i])), i + 1)
      [] At(s, i) = Quote ->
            LET r == ParseChars(s, i + 1, <<>>)
            IN  IF r.ok THEN POk(JStr(r.chars), r.pos) ELSE PFail
      [] At(s, i) = "[" ->
            IF At(s, SkipWs(s, i + 1)) = "]"
            THEN POk(JArr(<<>>), SkipWs(s, i + 1) + 1)
            ELSE ParseItems(s, i + 1, <<>>)
      [] At(s, i) = "{" ->
            IF At(s, SkipWs(s, i + 1)) = "}"
            THEN POk(JObj(<<>>), SkipWs(s, i + 1) + 1)
            ELSE ParseMembers(s, i + 1, <<>>)
      [] OTHER -> PFail

loads(s) ==
    LET r == ParseValue(s, SkipWs(s, 1))
    IN  IF r.ok /\ SkipWs(s, r.pos) = Len(s) + 1 THEN r ELSE PFail

\* ------------------------------------------------------- the data store
\* class DataPoint: a row of data_points.  ts is the datetime bound to the
\* INSERT; meta is NULL or the JSON text.
DataPoint(id, ts, value, meta) ==
    [id |-> id, ts |-> ts, value |-> value, meta |-> meta]

SqlNull      == [null |-> TRUE, text |-> <<>>]
SqlText(txt) == [null |-> FALSE, text |-> txt]

\* id = Column(Integer, primary_key=True): the engine assigns the next
\* integer after the largest id in the table.
RECURSIVE MaxId(_)
MaxId(rows) ==
    IF rows = <<>> THEN 0
    ELSE LET m == MaxId(Tail(rows))
         IN  IF Head(rows).id > m THEN Head(rows).id ELSE m
NextId_reuse(rows) == IF rows = <<>> THEN 1 ELSE MaxId(rows)
NextId(rows) == MaxId(rows) + 1

\* How DateTime(timezone=True) compares and returns a stored datetime.
\* SQLite keeps the reading as text without a zone: it compares readings
\* and returns a naive datetime.  Other engines keep the instant.
SqlKey(dt, be) == IF be = "sqlite" THEN dt.wall ELSE dt.wall - dt.off
ColumnRead(dt, be) ==
    IF be = "sqlite" THEN Naive(dt.wall) ELSE Aware(dt.wall - dt.off, 0)

\* value = Column(Float, nullable=False): SQLite binds NaN as NULL, which
\* the NOT NULL constraint refuses (IntegrityError).
InsertRaises(value, be) == be = "sqlite" /\ value.cls = "nan"

\* ------------------------------------------------------------- requests
\* def require_api_key()
require_api_key(hdr, key) == IF key = "" THEN TRUE ELSE hdr = key

\* payload = request.get_json(silent=True) or {}: the keys sent and their
\* values; payload.get(k) is None for a key that was not sent.
Payload(keys, value, ts, meta) ==
    [ts |-> ts, value |-> value, meta |-> meta, keys |-> keys]
GetTs(payload)   == IF "ts" \in payload.keys THEN payload.ts ELSE RNone
GetMeta(payload) == IF "meta" \in payload.keys THEN payload.meta ELSE JNull

\* meta_str = json.dumps(meta, ensure_ascii=False) if meta is not None else None
meta_str_truthy(meta) == IF ~JFalsy(meta) THEN SqlText(dumps(meta)) ELSE SqlNull
meta_str(meta) == IF ~IsNone(meta) THEN SqlText(dumps(meta)) ELSE SqlNull

Response(op, status, rest) == [op |-> op, status |-> status, x |-> rest]
NoResponse == Response("none", 0, <<>>)

\* ingest(), lines 67-79: the API key, the value, then the locals ts and
\* meta_str; the request then waits for its transaction.
ingest(hdr, payload) ==
    /\ UNCHANGED <<store, clock, sent, API_KEY, backend, localOff>>
    /\ IF ~require_api_key(hdr, API_KEY)
       THEN /\ resp' = Response("ingest", 401, [hdr |-> hdr, req |-> payload])
            /\ UNCHANGED inflight
       ELSE IF "value" \notin payload.keys
       THEN /\ resp' = Response("ingest", 400, [hdr |-> hdr, req |-> payload])
            /\ UNCHANGED inflight
       ELSE IF ~float(payload.value).ok
       THEN /\ resp' = Response("ingest", 400, [hdr |-> hdr, req |-> payload])
            /\ UNCHANGED inflight
       ELSE IF ~parse_ts(GetTs(payload), clock, localOff).ok
       THEN /\ resp' = Response("ingest", 500, [req |-> payload])
            /\ UNCHANGED inflight
       ELSE /\ Cardinality(inflight) < MaxInflight
            /\ Len(store) + Cardinality(inflight) < MaxPoints
            /\ inflight' = inflight \cup
                 {[ts    |-> parse_ts(GetTs(payload), clock, localOff).dt,
                   value |-> float(payload.value).val,
                   meta  |-> meta_str(GetMeta(payload)),
                   req   |-> payload,
                   at    |-> IF ReadsClock(GetTs(payload), localOff)
                             THEN clock ELSE 0]}
            /\ UNCHANGED resp

\* ingest(), lines 81-88: db.add(dp); db.commit(); the response carries
\* dp.id.  A refused INSERT is rolled back and answered with a 500.
commit(r) ==
    /\ r \in inflight
    /\ inflight' = inflight \ {r}
    /\ UNCHANGED <<clock, API_KEY, backend, localOff>>
    /\ IF InsertRaises(r.value, backend)
       THEN /\ UNCHANGED <<store, sent>>
            /\ resp' = Response("ingest", 500, [req |-> r.req])
       ELSE /\ store' = Append(store,
                          DataPoint(NextId(store), r.ts, r.value, r.meta))
            /\ sent' = Append(sent, [req |-> r.req, at |-> r.at])
            /\ resp' = Response("ingest", 200, [id |-> NextId(store)])

\* The rows a query selects, in table order: the filters of lines 98-101.
\* lo and hi are [on, dt]: whether the filter is applied and its bound.
Selected_exclusive(rows, lo, hi, be) ==
    SelectSeq(rows, LAMBDA r :
        /\ lo.on => SqlKey(r.ts, be) > SqlKey(lo.dt, be)
        /\ hi.on => SqlKey(r.ts, be) <= SqlKey(hi.dt, be))
Selected(rows, lo, hi, be) ==
    SelectSeq(rows, LAMBDA r :
        /\ lo.on => SqlKey(r.ts, be) >= SqlKey(lo.dt, be)
        /\ hi.on => SqlKey(r.ts, be) <= SqlKey(hi.dt, be))

\* q.order_by(DataPoint.ts.asc()).all(): every arrangement of the rows in
\* which ts does not decrease; SQL leaves the order of equal ts open.
Ordered(rows, be) ==
    LET n == Len(rows)
        perms == {f \in [1..n -> 1..n] : \A i, j \in 1..n : i # j => f[i] # f[j]}
    IN  {[i \in 1..n |-> rows[f[i]]] : f \in
           {g \in perms : \A i, j \in 1..n :
               i < j => SqlKey(rows[g[i]].ts, be) <= SqlKey(rows[g[j]].ts, be)}}

\* json.loads(r.meta) if r.meta else None
ReadMeta(m) == IF ~m.null /\ m.text # <<>> THEN loads(m.text) ELSE POk(JNull, 0)

\* One element of the response, lines 104-109.
Shape(r, be, loc) ==
    [id    |-> r.id,
     ts    |-> astimezone_utc(ColumnRead(r.ts, be), loc),
     value |-> r.value,
     meta  |-> ReadMeta(r.meta).val]

\* Bound of a query argument: `if since:` skips None and "".
\* [ok, on, dt]: ok = FALSE when parse_ts raised.
BoundOf_always(arg, clk, loc) ==
    [ok |-> parse_ts(arg, clk, loc).ok, on |-> TRUE,
     dt |-> parse_ts(arg, clk, loc).dt]
BoundOf(arg, clk, loc) ==
    IF Falsy(arg) THEN [ok |-> TRUE, on |-> FALSE, dt |-> Naive(0)]
    ELSE [ok |-> parse_ts(arg, clk, loc).ok, on |-> TRUE,
          dt |-> parse_ts(arg, clk, loc).dt]

\* api_data(): since is resolved at the clock's reading, until at a later
\* reading c2; then one SELECT.
api_data(since, until, c2) ==
    /\ c2 \in {clock, clock + 1} /\ c2 <= MaxClock
    /\ clock' = c2
    /\ UNCHANGED <<store, inflight, sent, API_KEY, backend, localOff>>
    /\ LET lo   == BoundOf(since, clock, localOff)
           hi   == BoundOf(until, c2, localOff)
           rows == Selected(store, lo, hi, backend)
       IN  IF ~lo.ok \/ ~hi.ok \/ \E i \in 1..Len(rows) : ~ReadMeta(rows[i].meta).ok
           THEN resp' = Response("query", 500,
                          [since |-> since, until |-> until])
           ELSE \E out \in Ordered(rows, backend) :
                  resp' = Response("query", 200,
                            [since |-> since, until |-> until,
                             at1 |-> clock, at2 |-> c2,
                             body |-> [i \in 1..Len(out) |->
                                         Shape(out[i], backend, localOff)]])

\* Time passes.
Tick ==
    /\ clock < MaxClock
    /\ clock' = clock + 1
    /\ UNCHANGED <<store, inflight, resp, sent, API_KEY, backend, localOff>>

\* ------------------------------------------------------------ the inputs
Headers == {"absent", "secret", "wrong"}

\* strings a client may send as ts, since or until
TsStrings ==
    {REmpty, RGarbage}
    \cup {RDigits(n) : n \in {0, 1, MaxEpoch + 1}}
    \cup {RFmt(f, MaxEpoch) : f \in 1 .. Len(ISO_FORMATS)}
    \cup {RIsoNaive(1)}
    \cup {RIsoOff(1, o) : o \in {0 - MaxOff, MaxOff}}
\* JSON values a client may send as ts
TsValues ==
    TsStrings
    \cup {RNone, RBool(0), RBool(1), Raw("elist", 0, 0, 0), Raw("other", 0, 0, 0)}
    \cup {RNum(n) : n \in {0, 1, MaxEpoch + 1}}

\* The state after start-up: an empty table (Base.metadata.create_all on a
\* fresh database), the environment read.
Init ==
    /\ store = <<>>
    /\ clock = 1
    /\ inflight = {}
    /\ resp = NoResponse
    /\ sent = <<>>
    /\ API_KEY \in {"", "secret"}
    /\ backend \in {"sqlite", "other"}
    /\ localOff \in {0, MaxOff}

\* values a client may send as value
Values ==
    {RNone, RGarbage, Raw("elist", 0, 0, 0), RNum(1), RDigits(2),
     Raw("inf", 0, 0, 0), Raw("numnan", 0, 0, 0)}

\* Validation: every header and every value, sent or not, no ts.
InitValues == Init /\ localOff = 0
Next ==
    \/ Tick
    \/ \E hdr \in Headers : ingest(hdr, Payload({}, RNone, RNone, JNull))
    \/ \E hdr \in Headers, value \in Values :
         ingest(hdr, Payload({"value"}, value, RNone, JNull))
    \/ \E r \in inflight : commit(r)
    \/ \E c2 \in 1 .. MaxClock : api_data(RNone, RNone, c2)

Spec == InitValues /\ [][Next]_vars

\* metadata a client may send
Abc(c) == <<c>>
Metas ==
    {JNull, JNum(0), JNum(1), JBool(FALSE), JBool(TRUE), JStr(<<>>),
     JStr(Abc("a")), JArr(<<>>), JArr(<<JNum(1), JStr(Abc("b"))>>), JObj(<<>>),
     JObj(<<Member(Abc("a"), JNum(1)),
            Member(Abc("b"), JArr(<<JNum(1), JNum(2), JNum(3)>>))>>),
     JObj(<<Member(Abc("a"), JObj(<<Member(Abc("b"), JNull)>>))>>)}

\* Metadata: every meta, sent or not, with a plain value and no ts.
InitMeta == Init /\ API_KEY = ""
NextMeta ==
    \/ Tick
    \/ /\ Len(store) + Cardinality(inflight) < MaxSingle
       /\ ingest("absent", Payload({"value"}, RNum(1), RNone, JNull))
    \/ \E meta \in Metas :
         /\ Len(store) + Cardinality(inflight) < MaxSingle
         /\ ingest("absent", Payload({"value", "meta"}, RNum(1), RNone, meta))
    \/ \E r \in inflight : commit(r)
    \/ \E c2 \in 1 .. MaxClock : api_data(RNone, RNone, c2)

SpecMeta == InitMeta /\ [][NextMeta]_vars

\* Timestamps: every ts a client may send, with a plain value and no key.
InitTs == Init /\ API_KEY = "" /\ localOff = 0
NextTs ==
    \/ Tick
    \/ /\ Len(store) + Cardinality(inflight) < MaxSingle
       /\ ingest("absent", Payload({"value"}, RNum(1), RNone, JNull))
    \/ \E ts \in TsValues :
         /\ Len(store) + Cardinality(inflight) < MaxSingle
         /\ ingest("absent", Payload({"value", "ts"}, RNum(1), ts, JNull))
    \/ ingest("absent", Payload({"value"}, Raw("numnan", 0, 0, 0), RNone, JNull))
    \/ \E r \in inflight : commit(r)
    \/ \E c2 \in 1 .. MaxClock : api_data(RNone, RNone, c2)

SpecTs == InitTs /\ [][NextTs]_vars

\* Ranges: a few timestamps stored, every pair of bounds queried.
ArgValues ==
    {RNone, REmpty, RGarbage, RDigits(1), RFmt(2, MaxEpoch),
     RIsoOff(1, MaxOff)}
InitRange == Init /\ API_KEY = "" /\ localOff = 0 /\ backend = "sqlite"
NextRange ==
    \/ Tick
    \/ \E ts \in {RDigits(1), RDigits(2)} :
         ingest("absent", Payload({"value", "ts"}, RNum(1), ts, JNull))
    \/ \E r \in inflight : commit(r)
    \/ \E since \in ArgValues, until \in ArgValues, c2 \in 1 .. MaxClock :
         api_data(since, until, c2)

SpecRange == InitRange /\ [][NextRange]_vars

\* ------------------------------------------------------------ the claims
Rows == {store[i] : i \in 1 .. Len(store)}
Stored == 1 .. Len(store)
SentTs(i) == GetTs(sent[i].req)
Answered == resp.op = "query" /\ resp.status = 200
BodyIds == {resp.x.body[i].id : i \in 1 .. Len(resp.x.body)}
InstantOfRow(r) == r.ts.wall - r.ts.off

\* C3: a ts that is a number (zero included) or a string of digits is
\* stored as the instant that many seconds after the epoch, never as the
\* current time.  (Stated for the numbers a datetime can represent.)
C3_NumericIsEpoch ==
    \A i \in Stored :
        (SentTs(i).k \in {"num", "digits"} /\ SentTs(i).n <= MaxEpoch)
           => store[i].ts = Aware(SentTs(i).n, 0)

\* C7: parse_ts never raises, so no ingest that sends a number as value is
\* answered with an error other than 401; a ts that is absent, empty or
\* matches no rule is stored as the clock's reading when it was parsed.
C7_Valid(p) == "value" \in p.keys /\ p.value.k \in {"num", "bool", "digits"}
C7_NoRule(v) == v.k \in {"none", "empty", "garbage", "elist", "other"}
C7_Total ==
    /\ (resp.op = "ingest" /\ resp.status \in {400, 500})
          => ~C7_Valid(resp.x.req)
    /\ \A r \in inflight : C7_NoRule(GetTs(r.req)) => r.ts = Aware(r.at, 0)
    /\ \A i \in Stored : C7_NoRule(SentTs(i)) => store[i].ts = Aware(sent[i].at, 0)
C7_Witness ==
    \E i \in Stored :
        /\ "ts" \in sent[i].req.keys /\ SentTs(i) = RGarbage
        /\ store[i].ts = Aware(sent[i].at, 0)
        /\ clock > sent[i].at

\* C10: every stored row has an id, a timestamp and a value; the timestamp
\* is aware with offset zero; a fixed-format or ISO string without a zone
\* is stored as its reading taken as UTC, and one with an offset as its
\* reading less the offset.
C10_StoredUtc ==
    /\ \A r \in Rows :
         /\ r.id >= 1
         /\ r.ts.aware /\ r.ts.off = 0
         /\ ~(backend = "sqlite" /\ r.value.cls = "nan")
    /\ \A r \in inflight : r.ts.aware /\ r.ts.off = 0
    /\ \A i \in Stored :
         SentTs(i).k \in {"fmt", "iso"}
            => store[i].ts = Aware(SentTs(i).n - SentTs(i).off, 0)
C10_Witness ==
    \E i \in Stored :
        /\ SentTs(i) = RIsoOff(1, MaxOff)
        /\ store[i].ts = Aware(1 - MaxOff, 0)

\* What a bound denotes when it parses: n seconds for a digit string, the
\* reading for a string without a zone, the reading less the offset
\* otherwise.
Parseable(v) == (v.k = "digits" /\ v.n <= MaxEpoch) \/ v.k \in {"fmt", "iso"}
InstantOf(v) == v.n - v.off

\* C1: with both bounds present and parseable, the query returns exactly
\* the stored points with S <= ts <= U, each once; with S after U it
\* returns the empty sequence with status 200.
C1_RangeExact ==
    (resp.op = "query" /\ Parseable(resp.x.since) /\ Parseable(resp.x.until))
    => /\ resp.status = 200
       /\ BodyIds = {r.id : r \in {q \in Rows :
                        /\ InstantOf(resp.x.since) <= InstantOfRow(q)
                        /\ InstantOfRow(q) <= InstantOf(resp.x.until)}}
       /\ Cardinality(BodyIds) = Len(resp.x.body)
       /\ InstantOf(resp.x.since) > InstantOf(resp.x.until)
             => resp.x.body = <<>>
C1_Witness ==
    /\ Answered
    /\ resp.x.since = RIsoOff(1, MaxOff) /\ resp.x.until = RDigits(1)
    /\ Len(resp.x.body) = 1
    /\ \E r \in Rows : InstantOfRow(r) = 1 /\ r.id \in BodyIds
    /\ \E r \in Rows : InstantOfRow(r) > 1 /\ r.id \notin BodyIds

\* C2: a query's result is in non-decreasing timestamp order, and points
\* with equal timestamps are in ascending id order.
C2_OrderedTiesById ==
    Answered =>
        \A i, j \in 1 .. Len(resp.x.body) :
            i < j => \/ resp.x.body[i].ts.wall < resp.x.body[j].ts.wall
                     \/ /\ resp.x.body[i].ts.wall = resp.x.body[j].ts.wall
                        /\ resp.x.body[i].id < resp.x.body[j].id

\* C6: an absent bound (an empty argument counts as absent) filters
\* nothing on its side; a bound that is sent, not empty and unparseable is
\* the clock's reading when the query resolved it, used inclusively.
C6_Unparseable(v) == v.k = "garbage" \/ (v.k = "digits" /\ v.n > MaxEpoch)
C6_Absent(v) == v.k \in {"none", "empty"}
C6_Lower(v, at, q) ==
    IF C6_Absent(v) THEN TRUE
    ELSE IF C6_Unparseable(v) THEN at <= InstantOfRow(q)
    ELSE InstantOf(v) <= InstantOfRow(q)
C6_Upper(v, at, q) ==
    IF C6_Absent(v) THEN TRUE
    ELSE IF C6_Unparseable(v) THEN InstantOfRow(q) <= at
    ELSE InstantOfRow(q) <= InstantOf(v)
C6_AbsentVsNow ==
    resp.op = "query"
    => /\ resp.status = 200
       /\ BodyIds = {r.id : r \in {q \in Rows :
                        /\ C6_Lower(resp.x.since, resp.x.at1, q)
                        /\ C6_Upper(resp.x.until, resp.x.at2, q)}}
C6_Witness ==
    /\ Answered
    /\ resp.x.since = RNone /\ resp.x.until = RGarbage
    /\ \E r \in Rows : InstantOfRow(r) = resp.x.at2 /\ r.id \in BodyIds
    /\ \E r \in Rows : InstantOfRow(r) > resp.x.at2 /\ r.id \notin BodyIds

\* C4: an ingest that passes the key check and whose payload has no value,
\* or a value float() refuses, is answered 400; it is never queued for a
\* write, and the step that answers 400 leaves the table as it was.
C4_NoValue(p) ==
    \/ "value" \notin p.keys
    \/ p.value.k \in {"none", "empty", "garbage", "elist", "other"}
C4_Rejected ==
    /\ [](/\ (resp.op = "ingest" /\ resp.status = 401)
                => ~require_api_key(resp.x.hdr, API_KEY)
          /\ (resp.op = "ingest" /\ resp.status = 500)
                => ~C4_NoValue(resp.x.req)
          /\ \A r \in inflight : ~C4_NoValue(r.req)
          /\ \A i \in Stored : ~C4_NoValue(sent[i].req))
    /\ [][(resp' # resp /\ resp'.status = 400)
             => (store' = store /\ inflight' = inflight)]_vars
C4_Witness ==
    /\ resp.op = "ingest" /\ resp.status = 400
    /\ "value" \in resp.x.req.keys /\ resp.x.req.value = RGarbage
    /\ Len(store) = MaxPoints

\* C5: every stored value is finite: a value that converts to infinity or
\* NaN is never written.
C5_StoredFinite ==
    /\ \A r \in Rows : r.value.cls = "fin"
    /\ \A r \in inflight : r.value.cls = "fin"

\* C8: a query returns, for every point, the metadata its ingest sent: an
\* equal JSON value when one was sent, null when none (or null) was.
RECURSIVE JsonEq(_, _)
JsonEq(a, b) ==
    /\ a.t = b.t
    /\ CASE a.t = "null" -> TRUE
         [] a.t = "bool" -> a.b = b.b
         [] a.t = "num"  -> a.n = b.n
         [] a.t = "str"  -> a.s = b.s
         [] a.t = "arr"  ->
              /\ Len(a.a) = Len(b.a)
              /\ \A i \in 1 .. Len(a.a) : JsonEq(a.a[i], b.a[i])
         [] a.t = "obj"  ->
              /\ Len(a.m) = Len(b.m)
              /\ \A i \in 1 .. Len(a.m) :
                   a.m[i].k = b.m[i].k /\ JsonEq(a.m[i].v, b.m[i].v)
SentOf(id) == sent[CHOOSE i \in Stored : store[i].id = id].req
C8_MetaRoundTrip ==
    resp.op = "query"
    => /\ resp.status = 200
       /\ Len(resp.x.body) = Len(store)
       /\ \A i \in 1 .. Len(resp.x.body) :
            LET b == resp.x.body[i]
                p == SentOf(b.id)
            IN  IF "meta" \in p.keys THEN JsonEq(b.meta, p.meta)
                ELSE b.meta = JNull
C8_Witness ==
    /\ Answered
    /\ \E i \in 1 .. Len(resp.x.body) :
         /\ "meta" \in SentOf(resp.x.body[i].id).keys
         /\ SentOf(resp.x.body[i].id).meta = JObj(<<>>)
         /\ resp.x.body[i].meta = JObj(<<>>)

\* C9: ids are distinct and grow with every commit; a step changes the
\* table only by appending the row whose id a 200 response of ingest
\* returns, greater than every id stored before; every other step (a
\* query, a rejected ingest) leaves every row as it was.
C9_AppendOnly ==
    /\ [](\A i, j \in Stored : i < j => store[i].id < store[j].id)
    /\ [][/\ Len(store') >= Len(store)
          /\ \A i \in Stored : store'[i] = store[i]
          /\ store' # store =>
               /\ resp'.op = "ingest" /\ resp'.status = 200
               /\ Len(store') = Len(store) + 1
               /\ store'[Len(store')].id = resp'.x.id
               /\ \A i \in Stored : store[i].id < resp'.x.id
          /\ (resp' # resp /\ (resp'.op = "query" \/ resp'.status # 200))
               => store' = store]_vars
C9_Witness ==
    /\ Len(store) = MaxPoints
    /\ resp.op = "ingest" /\ resp.status = 400
    /\ \A i \in Stored : store[i].id = i

====
